---- MODULE Spec2Model ----
(***************************************************************************)
(* A model of two parts of psi4:                                           *)
(*   - the ROHF solver, src/src/lib/libscf_solver/rohf.cc                  *)
(*   - the ECP basis set, src/psi4/src/psi4/libmints/ecp.cc                *)
(*                                                                         *)
(* Matrices are blocked by irrep: M[h][i][j], h in 1..nirrep_, i and j     *)
(* 0-based as in the code.  Numbers are integers.  The one-electron and    *)
(* two-electron matrices (H, J, K) are taken with even entries, so that    *)
(* scale(0.5) and the 0.5 of the energy are exact integer divisions.       *)
(***************************************************************************)
EXTENDS Integers, Sequences, FiniteSets, TLC

(***************************************************************************)
(* Bounds of the model.                                                    *)
(***************************************************************************)
\* Seeds 0..MaxSeed index the families the inputs and the results of the
\* external collaborators (integral engine, diagonaliser) are drawn from.
MaxSeed == 2
\* SCF iterations one run of the solver makes at most.
MaxIter == 1
\* Largest angular momentum of an ECP shell.
MaxAm == 1
\* Largest number of primitives of an ECP shell.
MaxPrim == 2
\* Atoms of the molecule.
MaxAtoms == 3
\* Largest number of per-atom records of a structured ECP description.
MaxRecords == 2

(***************************************************************************)
(* Dimensions (HF base class fields).                                      *)
(***************************************************************************)
\* nsopi_[h]: the dimension of irrep block h.
nsopi_ == <<3, 1>>
nirrep_ == Len(nsopi_)
\* nmopi_[h]: every matrix of the factory is square, nmo = nso.
nmopi_ == nsopi_
Irreps == 1..nirrep_
Idx(h) == 0..(nsopi_[h] - 1)

(***************************************************************************)
(* Dense linear algebra used by the solver (Matrix, Vector).               *)
(***************************************************************************)
\* Sum of f[m] for m in lo..hi-1; f is a function on integers.
RECURSIVE SumRange(_, _, _)
SumRange(f, lo, hi) ==
    IF lo >= hi THEN 0 ELSE f[lo] + SumRange(f, lo + 1, hi)

\* factory_->create_matrix(): a zero matrix with the irrep blocking.
create_matrix == [h \in Irreps |-> [i \in Idx(h) |-> [j \in Idx(h) |-> 0]]]

\* factory_->create_vector(): a zero vector blocked by irrep.
create_vector == [h \in Irreps |-> [i \in Idx(h) |-> 0]]

\* Matrix::add
add(A, B) == [h \in Irreps |-> [i \in Idx(h) |-> [j \in Idx(h) |-> A[h][i][j] + B[h][i][j]]]]

\* Matrix::subtract
subtract(A, B) == [h \in Irreps |-> [i \in Idx(h) |-> [j \in Idx(h) |-> A[h][i][j] - B[h][i][j]]]]

\* Matrix::scale(0.5); exact on the even entries it is applied to.
scale_half(A) == [h \in Irreps |-> [i \in Idx(h) |-> [j \in Idx(h) |-> A[h][i][j] \div 2]]]

\* Matrix::gemm(false, false, 1.0, A, B, 0.0): the product A B.
gemm(A, B) ==
    [h \in Irreps |-> [i \in Idx(h) |-> [j \in Idx(h) |->
        SumRange([k \in Idx(h) |-> A[h][i][k] * B[h][k][j]], 0, nsopi_[h])]]]

\* The transpose, used by transform.
transpose(A) == [h \in Irreps |-> [i \in Idx(h) |-> [j \in Idx(h) |-> A[h][j][i]]]]

\* Matrix::transform(F, C): C^T F C.
transform(F, C) == gemm(transpose(C), gemm(F, C))

\* Matrix::vector_dot: the sum of the element-wise products over all irreps.
vector_dot(A, B) ==
    SumRange([h \in Irreps |->
        SumRange([i \in Idx(h) |->
            SumRange([j \in Idx(h) |-> A[h][i][j] * B[h][i][j]], 0, nsopi_[h])],
            0, nsopi_[h])], 1, nirrep_ + 1)

\* Matrix::rms: sqrt(sum of squares / number of elements), kept exactly as the
\* pair <<sum of squares, number of elements>>.
rms(A) ==
    [sumsq |-> vector_dot(A, A),
     terms |-> SumRange([h \in Irreps |-> nsopi_[h] * nsopi_[h]], 1, nirrep_ + 1)]

\* r < t for r = sqrt(sumsq / terms) and a threshold t, exactly.
RmsLess(r, t) == t > 0 /\ r.sumsq < t * t * r.terms

\* fabs
fabs(x) == IF x < 0 THEN -x ELSE x

(***************************************************************************)
(* Input families.                                                         *)
(***************************************************************************)
Seeds == 0..MaxSeed

\* Symmetric matrices with even entries: core Hamiltonians, J and K.
SymMat(s) ==
    [h \in Irreps |-> [i \in Idx(h) |-> [j \in Idx(h) |->
        2 * ((s + 1) * (i + j) + s * i * j + h + s)]]]

\* Symmetric orthogonalisation matrices S^-1/2.
ShalfMat(s) ==
    [h \in Irreps |-> [i \in Idx(h) |-> [j \in Idx(h) |->
        IF i = j THEN 1 + (s % 2) ELSE s % 2]]]

\* Eigenvector matrices a diagonalisation returns: signed permutations.
EigMat(d) ==
    [h \in Irreps |-> [i \in Idx(h) |-> [j \in Idx(h) |->
        IF j = (i + d) % nsopi_[h]
        THEN (IF d > 1 /\ i = 0 THEN -1 ELSE 1)
        ELSE 0]]]

\* Eigenvalues a diagonalisation returns: ascending within each irrep.
EpsVec(d) ==
    [h \in Irreps |-> [i \in Idx(h) |-> IF h = 1 THEN 2 * i + 1 ELSE 2 * (i + d)]]

\* Total numbers of doubly and singly occupied orbitals of the calculation.
Totals == {<<1, 1>>, <<2, 1>>, <<1, 0>>}

\* Convergence thresholds of the options.
EnergyThresholds == {4, 64}
DensityThresholds == {0, 1}

\* Maximum DIIS vector counts of the options.
DiisVectorCounts == {1, 2}

(***************************************************************************)
(* State.                                                                  *)
(***************************************************************************)
VARIABLES
    \* ---- ROHF (rohf.cc); Cb_ and epsilon_b_ are what the beta pointers read ----
    H_, Shalf_, nuclearrep_, ndocc_, nsocc_,
    energy_threshold_, density_threshold_,
    Fa_, Fb_, Feff_, Ca_, Da_, Db_, Ka_, Kb_, Ga_, Gb_,
    Dt_old_, Dt_, moFa_, moFb_, epsilon_a_, Cb_, epsilon_b_,
    doccpi_, soccpi_, E_, Eold_, Drms_,
    converged, iteration, pc,
    max_diis_vectors_, initialized_diis_manager_, diis_manager_,
    managers_created,   \* how many DIIS managers the calculation constructed
    \* ---- ECPShellInfo (ecp.cc): two descriptors and the last comparison ----
    primitive_type, shA, shB, shEq,
    \* ---- ECPBasisSet (ecp.cc) ----
    epc,        \* position in construct_ecp_from_pydict / the constructor
    mol,        \* the molecule: per atom Z, label, basis name, shell hash
    pybs,       \* the structured ECP description
    ecp,        \* locals of construct_ecp_from_pydict
    shell_map,  \* basis_atom_shell, passed by reference to the constructor
    ctor,       \* the constructor's frame: the object (name_) and its locals
    trace       \* the calls made on the molecule, in order

rohfInputs == <<H_, Shalf_, nuclearrep_, ndocc_, nsocc_,
                energy_threshold_, density_threshold_, max_diis_vectors_>>
rohfFock == <<Fa_, Fb_, moFa_, moFb_, Feff_>>
rohfJK == <<Ka_, Kb_, Ga_, Gb_>>
rohfOrbitals == <<Ca_, Cb_, epsilon_a_, epsilon_b_, doccpi_, soccpi_>>
rohfDensity == <<Da_, Db_, Dt_>>
rohfHistory == <<Dt_old_, Eold_>>
rohfDiis == <<initialized_diis_manager_, diis_manager_, managers_created>>
rohfVars == <<rohfInputs, rohfFock, rohfJK, rohfOrbitals, rohfDensity,
              rohfHistory, rohfDiis, E_, Drms_, converged, iteration, pc>>

shellVars == <<shA, shB, shEq>>
basisVars == <<epc, mol, pybs, ecp, shell_map, ctor, trace>>
ecpVars == <<primitive_type, shellVars, basisVars>>

vars == <<rohfVars, ecpVars>>

(***************************************************************************)
(* Occupations (HF::find_occupation, an external collaborator).            *)
(***************************************************************************)
\* All orbitals <<h, i>>.
Orbitals == UNION {{<<h, i>> : i \in Idx(h)} : h \in Irreps}

\* The number of orbitals that come before orbital (h, i) in ascending order
\* of orbital energy over all irreps, ties broken by irrep and index.
OrbitalRank(eps, h, i) ==
    Cardinality({o \in Orbitals :
        /\ \/ eps[o[1]][o[2]] < eps[h][i]
           \/ /\ eps[o[1]][o[2]] = eps[h][i]
              /\ (o[1] < h \/ (o[1] = h /\ o[2] < i))})

\* Per-irrep counts of the orbitals whose rank lies in lo..hi-1.
OccupiedPerIrrep(eps, lo, hi) ==
    [h \in Irreps |->
        Cardinality({i \in Idx(h) :
            OrbitalRank(eps, h, i) >= lo /\ OrbitalRank(eps, h, i) < hi})]

(***************************************************************************)
(* The computations of the ROHF operations.                                *)
(***************************************************************************)
\* Orbital classes of irrep h: closed [0, docc), open [docc, docc+socc),
\* virtual [docc+socc, nmo).
IsClosed(docc, socc, h, i) == i >= 0 /\ i < docc[h]
IsOpen(docc, socc, h, i) == i >= docc[h] /\ i < docc[h] + socc[h]
IsVirtual(docc, socc, h, i) == i >= docc[h] + socc[h] /\ i < nmopi_[h]

\* EffectiveFock with the two sources exchanged: alpha entries in the
\* closed-open block, beta entries in the open-virtual block.
EffectiveFock_exchanged(moFa, moFb, docc, socc) ==
    LET Fc == scale_half(add(moFa, moFb))
    IN [h \in Irreps |-> [p \in Idx(h) |-> [q \in Idx(h) |->
           IF IsOpen(docc, socc, h, p) /\ IsClosed(docc, socc, h, q)
               THEN moFa[h][p][q]
           ELSE IF IsClosed(docc, socc, h, p) /\ IsOpen(docc, socc, h, q)
               THEN moFa[h][q][p]
           ELSE IF IsOpen(docc, socc, h, p) /\ IsVirtual(docc, socc, h, q)
               THEN moFb[h][p][q]
           ELSE IF IsVirtual(docc, socc, h, p) /\ IsOpen(docc, socc, h, q)
               THEN moFb[h][q][p]
           ELSE Fc[h][p][q]]]]

\* form_F, the effective Fock matrix: Fc = 0.5 (moFa + moFb), then for every
\* open i the entries (i, j) and (j, i) are set to moFb(i, j) for closed j
\* and to moFa(i, j) for virtual j.
EffectiveFock(moFa, moFb, docc, socc) ==
    LET Fc == scale_half(add(moFa, moFb))
    IN [h \in Irreps |-> [p \in Idx(h) |-> [q \in Idx(h) |->
           IF IsOpen(docc, socc, h, p) /\ IsClosed(docc, socc, h, q)
               THEN moFb[h][p][q]
           ELSE IF IsClosed(docc, socc, h, p) /\ IsOpen(docc, socc, h, q)
               THEN moFb[h][q][p]
           ELSE IF IsOpen(docc, socc, h, p) /\ IsVirtual(docc, socc, h, q)
               THEN moFa[h][p][q]
           ELSE IF IsVirtual(docc, socc, h, p) /\ IsOpen(docc, socc, h, q)
               THEN moFa[h][q][p]
           ELSE Fc[h][p][q]]]]

\* form_D, the beta density: the sum over the doubly occupied orbitals.
BetaDensity(C, docc) ==
    [h \in Irreps |-> [i \in Idx(h) |-> [j \in Idx(h) |->
        SumRange([m \in Idx(h) |-> C[h][i][m] * C[h][j][m]], 0, docc[h])]]]

\* AlphaDensity with val started again from zero before the singly occupied
\* orbitals.
AlphaDensity_openOnly(C, docc, socc) ==
    [h \in Irreps |-> [i \in Idx(h) |-> [j \in Idx(h) |->
        SumRange([m \in Idx(h) |-> C[h][i][m] * C[h][j][m]],
                 docc[h], docc[h] + socc[h])]]]

\* form_D, the alpha density: val goes on over the singly occupied orbitals.
AlphaDensity(C, docc, socc) ==
    [h \in Irreps |-> [i \in Idx(h) |-> [j \in Idx(h) |->
        SumRange([m \in Idx(h) |-> C[h][i][m] * C[h][j][m]], 0, docc[h])
        + SumRange([m \in Idx(h) |-> C[h][i][m] * C[h][j][m]],
                   docc[h], docc[h] + socc[h])]]]

\* form_D, the total density: Dt_->copy(Da_); Dt_->copy(Db_).  The second
\* copy overwrites the first.
TotalDensity(Da, Db) ==
    LET first == Da
        second == Db
    IN second

\* TotalEnergy without the beta one-electron term.
TotalEnergy_noBetaH(nuclearrep, H, Da, Db, Fa, Fb) ==
    LET DH == vector_dot(Da, H)
        DFa == vector_dot(Da, Fa)
        DFb == vector_dot(Db, Fb)
        Eelec == (DH + DFa + DFb) \div 2
    IN nuclearrep + Eelec

\* compute_E
TotalEnergy(nuclearrep, H, Da, Db, Fa, Fb) ==
    LET DH == vector_dot(Da, H) + vector_dot(Db, H)
        DFa == vector_dot(Da, Fa)
        DFb == vector_dot(Db, Fb)
        Eelec == (DH + DFa + DFb) \div 2
    IN nuclearrep + Eelec

\* ConvergencyTest with a non-strict energy comparison.
ConvergencyTest_nonstrict(E, Eold, Drms, ethr, dthr) ==
    LET ediff == E - Eold
    IN fabs(ediff) <= ethr /\ RmsLess(Drms, dthr)

\* test_convergency, the returned value.
ConvergencyTest(E, Eold, Drms, ethr, dthr) ==
    LET ediff == E - Eold
    IN fabs(ediff) < ethr /\ RmsLess(Drms, dthr)

(***************************************************************************)
(* The order of the operations in one calculation (the SCF driver of the   *)
(* HF base class): initial guess, density, energy, then per iteration      *)
(* save, G, F, C, D, E, convergence test and, when that fails, the DIIS    *)
(* step save_fock, diis.                                                   *)
(***************************************************************************)
NextOp(op, iter, conv) ==
    CASE op = "form_initial_C" -> "form_D"
      [] op = "form_D" -> "compute_E"
      [] op = "compute_E" ->
            IF iter = 0
            THEN (IF iter < MaxIter THEN "save_density_and_energy" ELSE "done")
            ELSE "test_convergency"
      [] op = "save_density_and_energy" -> "form_G"
      [] op = "form_G" -> "form_F"
      [] op = "form_F" -> "form_C"
      [] op = "form_C" -> "form_D"
      [] op = "test_convergency" ->
            IF conv THEN "done" ELSE "save_fock"
      [] op = "save_fock" -> "diis"
      [] op = "diis" ->
            IF iter >= MaxIter THEN "done" ELSE "save_density_and_energy"
      [] OTHER -> "done"

(***************************************************************************)
(* ROHF: construction and operations.                                      *)
(***************************************************************************)
(***************************************************************************)
(* DIISManager, an external collaborator: a bounded history of entries,    *)
(* each a stored vector with its error vector.                             *)
(***************************************************************************)
\* No manager: diis_manager_ before the first save_fock.
NoManager == [max |-> 0, sizes_set |-> FALSE, entries |-> <<>>]

\* new DIISManager(max_diis_vectors_, ...), then set_error_vector_size and
\* set_vector_size: a manager with an empty history.
NewDIISManager(max) == [max |-> max, sizes_set |-> TRUE, entries |-> <<>>]

\* DIISManager::extrapolate(1, Feff): the matrix written into Feff.  It is
\* made of the stored vectors; with none stored there is nothing to write.
Extrapolate(manager, F) ==
    IF manager.entries = <<>> THEN F
    ELSE manager.entries[Len(manager.entries)].vector

\* Before the first save_fock: no manager, the flag of the HF base class
\* is false.
DiisInit ==
    /\ initialized_diis_manager_ = FALSE
    /\ diis_manager_ = NoManager
    /\ managers_created = 0

\* ThroughBeta with the beta pointer holding an object of its own.
ThroughBeta_ownObject(alphaObject, betaObject) == betaObject

\* Cb_ = Ca_ and epsilon_b_ = epsilon_a_ assign shared pointers: the beta
\* pointer holds the alpha object, and what is read through it is what the
\* alpha object holds, whatever an object created for beta alone would hold.
ThroughBeta(alphaObject, betaObject) == alphaObject

\* ROHF::ROHF -> common_init: every matrix is created zero.
common_init ==
    /\ Fa_ = create_matrix /\ Fb_ = create_matrix /\ Feff_ = create_matrix
    /\ Ca_ = create_matrix
    /\ Da_ = create_matrix /\ Db_ = create_matrix
    /\ Ka_ = create_matrix /\ Kb_ = create_matrix
    /\ Ga_ = create_matrix /\ Gb_ = create_matrix
    /\ Dt_old_ = create_matrix /\ Dt_ = create_matrix
    /\ moFa_ = create_matrix /\ moFb_ = create_matrix
    /\ epsilon_a_ = create_vector
    /\ Cb_ = ThroughBeta(Ca_, create_matrix)
    /\ epsilon_b_ = ThroughBeta(epsilon_a_, create_vector)

RohfInit ==
    /\ \E s \in Seeds :
          /\ H_ = SymMat(s)
          /\ Shalf_ = ShalfMat(s)
          /\ nuclearrep_ = s
    /\ \E t \in Totals : ndocc_ = t[1] /\ nsocc_ = t[2]
    /\ energy_threshold_ \in EnergyThresholds
    /\ density_threshold_ \in DensityThresholds
    /\ max_diis_vectors_ \in DiisVectorCounts
    /\ common_init
    /\ DiisInit
    /\ doccpi_ = [h \in Irreps |-> 0]
    /\ soccpi_ = [h \in Irreps |-> 0]
    /\ E_ = 0 /\ Eold_ = 0
    /\ Drms_ = [sumsq |-> 0, terms |-> 1]
    /\ converged = FALSE
    /\ iteration = 0
    /\ pc = "form_initial_C"

\* find_occupation: the lowest ndocc orbitals are doubly occupied, the next
\* nsocc singly.
find_occupation(eps) ==
    /\ doccpi_' = OccupiedPerIrrep(eps, 0, ndocc_)
    /\ soccpi_' = OccupiedPerIrrep(eps, ndocc_, ndocc_ + nsocc_)

\* form_initial_C: diagonalise Shalf^T H Shalf, assign occupations, and
\* back-transform the eigenvectors with Shalf.
form_initial_C ==
    /\ pc = "form_initial_C"
    /\ \E d \in Seeds :
          LET temp == transform(H_, Shalf_)
              eigvec == EigMat(d)
          IN /\ epsilon_a_' = EpsVec(d)
             /\ find_occupation(EpsVec(d))
             /\ Ca_' = gemm(Shalf_, eigvec)
    /\ Cb_' = ThroughBeta(Ca_', Cb_)
    /\ epsilon_b_' = ThroughBeta(epsilon_a_', epsilon_b_)
    /\ pc' = NextOp("form_initial_C", iteration, converged)
    /\ UNCHANGED <<rohfInputs, rohfFock, rohfJK, rohfDensity, rohfHistory,
                   E_, Drms_, converged, iteration>>
    /\ UNCHANGED <<rohfDiis, ecpVars>>

\* save_density_and_energy
save_density_and_energy ==
    /\ pc = "save_density_and_energy"
    /\ iteration < MaxIter
    /\ Dt_old_' = Dt_
    /\ Eold_' = E_
    /\ iteration' = iteration + 1
    /\ pc' = NextOp("save_density_and_energy", iteration', converged)
    /\ UNCHANGED <<rohfInputs, rohfFock, rohfJK, rohfOrbitals, rohfDensity,
                   E_, Drms_, converged>>
    /\ UNCHANGED <<rohfDiis, ecpVars>>

\* form_G: the integral engine fills J (into Ga_), Ka_ and Kb_; then
\* Gb = J - Kb and Ga = J - Ka.
form_G ==
    /\ pc = "form_G"
    /\ \E g \in Seeds :
          LET J == SymMat(g + 2)
          IN /\ Ka_' = SymMat(g)
             /\ Kb_' = SymMat(g + 1)
             /\ Gb_' = subtract(J, Kb_')
             /\ Ga_' = subtract(J, Ka_')
    /\ pc' = NextOp("form_G", iteration, converged)
    /\ UNCHANGED <<rohfInputs, rohfFock, rohfOrbitals, rohfDensity, rohfHistory,
                   E_, Drms_, converged, iteration>>
    /\ UNCHANGED <<rohfDiis, ecpVars>>

\* form_F
form_F ==
    /\ pc = "form_F"
    /\ Fa_' = add(H_, Ga_)
    /\ Fb_' = add(H_, Gb_)
    /\ moFa_' = transform(Fa_', Ca_)
    /\ moFb_' = transform(Fb_', Ca_)
    /\ Feff_' = EffectiveFock(moFa_', moFb_', doccpi_, soccpi_)
    /\ pc' = NextOp("form_F", iteration, converged)
    /\ UNCHANGED <<rohfInputs, rohfJK, rohfOrbitals, rohfDensity, rohfHistory,
                   E_, Drms_, converged, iteration>>
    /\ UNCHANGED <<rohfDiis, ecpVars>>

\* form_C: diagonalise Feff, assign occupations, C = C * eigvec.
form_C ==
    /\ pc = "form_C"
    /\ \E d \in Seeds :
          LET eigvec == EigMat(d)
          IN /\ epsilon_a_' = EpsVec(d)
             /\ find_occupation(EpsVec(d))
             /\ Ca_' = gemm(Ca_, eigvec)
    /\ Cb_' = ThroughBeta(Ca_', Cb_)
    /\ epsilon_b_' = ThroughBeta(epsilon_a_', epsilon_b_)
    /\ pc' = NextOp("form_C", iteration, converged)
    /\ UNCHANGED <<rohfInputs, rohfFock, rohfJK, rohfDensity, rohfHistory,
                   E_, Drms_, converged, iteration>>
    /\ UNCHANGED <<rohfDiis, ecpVars>>

\* form_D
form_D ==
    /\ pc = "form_D"
    /\ Db_' = BetaDensity(Ca_, doccpi_)
    /\ Da_' = AlphaDensity(Ca_, doccpi_, soccpi_)
    /\ Dt_' = TotalDensity(Da_', Db_')
    /\ pc' = NextOp("form_D", iteration, converged)
    /\ UNCHANGED <<rohfInputs, rohfFock, rohfJK, rohfOrbitals, rohfHistory,
                   E_, Drms_, converged, iteration>>
    /\ UNCHANGED <<rohfDiis, ecpVars>>

\* compute_E (and compute_initial_E, which only calls it); the driver stores
\* the returned value in E_.
compute_E ==
    /\ pc = "compute_E"
    /\ E_' = TotalEnergy(nuclearrep_, H_, Da_, Db_, Fa_, Fb_)
    /\ pc' = NextOp("compute_E", iteration, converged)
    /\ UNCHANGED <<rohfInputs, rohfFock, rohfJK, rohfOrbitals, rohfDensity,
                   rohfHistory, Drms_, converged, iteration>>
    /\ UNCHANGED <<rohfDiis, ecpVars>>

\* save_fock: the first call creates the DIIS manager and sets its vector
\* sizes; the statements that stored Feff and its error matrix are
\* commented out, so nothing else is done.
save_fock ==
    /\ pc = "save_fock"
    /\ IF initialized_diis_manager_ = FALSE
       THEN /\ diis_manager_' = NewDIISManager(max_diis_vectors_)
            /\ managers_created' = managers_created + 1
            /\ initialized_diis_manager_' = TRUE
       ELSE UNCHANGED <<diis_manager_, managers_created,
                        initialized_diis_manager_>>
    /\ pc' = NextOp("save_fock", iteration, converged)
    /\ UNCHANGED <<rohfInputs, rohfFock, rohfJK, rohfOrbitals, rohfDensity,
                   rohfHistory, E_, Drms_, converged, iteration>>
    /\ UNCHANGED ecpVars

\* diis: diis_manager_->extrapolate(1, Feff_.get())
diis ==
    /\ pc = "diis"
    /\ Feff_' = Extrapolate(diis_manager_, Feff_)
    /\ pc' = NextOp("diis", iteration, converged)
    /\ UNCHANGED <<rohfInputs, Fa_, Fb_, moFa_, moFb_, rohfJK, rohfOrbitals,
                   rohfDensity, rohfHistory, rohfDiis, E_, Drms_, converged,
                   iteration>>
    /\ UNCHANGED ecpVars

\* test_convergency; the driver keeps the returned value in converged.
test_convergency ==
    /\ pc = "test_convergency"
    /\ Drms_' = rms(subtract(Dt_, Dt_old_))
    /\ converged' = ConvergencyTest(E_, Eold_, Drms_', energy_threshold_,
                                    density_threshold_)
    /\ pc' = NextOp("test_convergency", iteration, converged')
    /\ UNCHANGED <<rohfInputs, rohfFock, rohfJK, rohfOrbitals, rohfDensity,
                   rohfHistory, E_, iteration>>
    /\ UNCHANGED <<rohfDiis, ecpVars>>

(***************************************************************************)
(* ECPShellInfo (ecp.cc) on top of ShellInfo.                              *)
(***************************************************************************)
\* The base class constructor ShellInfo::ShellInfo(am, c, e, pure, nc,
\* center, start, pt), which ecp.cc calls and does not define.  It keeps the
\* coefficients it is given as original_coef_ and derives coef_ and
\* erd_coef_ from them: unchanged for normalised primitives, rescaled per
\* primitive for unnormalised ones.  ECPShellInfo passes no pt, so the
\* header's default applies; primitive_type stands for it.
ShellInfo(am, c, e, pure, nc, center, start, pt) ==
    [l_ |-> am,
     puream_ |-> pure,
     exp_ |-> e,
     original_coef_ |-> c,
     coef_ |-> IF pt = "Normalized" THEN c
               ELSE [p \in DOMAIN c |-> c[p] * (e[p] + am + 1)],
     erd_coef_ |-> IF pt = "Normalized" THEN c
                   ELSE [p \in DOMAIN c |-> c[p] * (e[p] + 1)],
     nc_ |-> nc,
     center_ |-> center,
     start_ |-> start,
     ncartesian_ |-> ((am + 1) * (am + 2)) \div 2,
     nfunction_ |-> IF pure = "Pure" THEN 2 * am + 1
                    ELSE ((am + 1) * (am + 2)) \div 2]

\* ECPShellInfo::ECPShellInfo: a Cartesian ShellInfo with the radial powers
\* n_ and the per-primitive angular momenta sub_l_.
ECPShellInfo(am, c, e, n, sub_l, nc, center, start) ==
    ShellInfo(am, c, e, "Cartesian", nc, center, start, primitive_type)
      @@ [n_ |-> n, sub_l_ |-> sub_l]

\* ECPShellInfo::copy()
copy(sh) ==
    ECPShellInfo(sh.l_, sh.original_coef_, sh.exp_, sh.n_, sh.sub_l_,
                 sh.nc_, sh.center_, sh.start_)

\* ECPShellInfo::copy(nc, c)
copy_to(sh, nc, c) ==
    ECPShellInfo(sh.l_, sh.original_coef_, sh.exp_, sh.n_, sh.sub_l_,
                 nc, c, sh.start_)

\* ECPShellInfo::operator==
ShellEquals(LHS, RHS) ==
    /\ LHS.l_ = RHS.l_
    /\ LHS.puream_ = RHS.puream_
    /\ LHS.exp_ = RHS.exp_
    /\ LHS.original_coef_ = RHS.erd_coef_
    /\ LHS.n_ = RHS.n_
    /\ LHS.sub_l_ = RHS.sub_l_
    /\ LHS.nc_ = RHS.nc_
    /\ LHS.center_ = RHS.center_
    /\ LHS.start_ = RHS.start_
    /\ LHS.ncartesian_ = RHS.ncartesian_
    /\ LHS.nfunction_ = RHS.nfunction_

\* The family of shell descriptions: np primitives of angular momentum am;
\* seed s sets exponents, coefficients, radial powers and sub-l labels.
ShellOf(am, np, s, nc, center, start) ==
    ECPShellInfo(am,
                 [p \in 1..np |-> 2 * s + p],
                 [p \in 1..np |-> s + p],
                 [p \in 1..np |-> (s + p) % 3],
                 [p \in 1..np |-> IF s % 2 = 1 THEN p - 1 ELSE am],
                 nc, center, start)

ShellSeeds == 0..1
Centers == 0..1
ShellFamily ==
    {ShellOf(am, np, s, nc, c, 0) :
        am \in 0..MaxAm, np \in 1..MaxPrim, s \in ShellSeeds, nc \in Centers, c \in Centers}

PrimitiveTypes == {"Normalized", "Unnormalized"}

\* No descriptor in use.
NoShell == [l_ |-> 0 - 1]

ShellIdle ==
    /\ shA = NoShell /\ shB = NoShell /\ shEq = "none"

ShellInit ==
    /\ primitive_type \in PrimitiveTypes
    /\ shA \in ShellFamily
    /\ shB = NoShell
    /\ shEq = "none"

\* Another descriptor is constructed as the right-hand side.
shell_construct ==
    /\ shB' \in ShellFamily
    /\ shB' # shB
    /\ shEq' = "none"
    /\ UNCHANGED <<shA, primitive_type, rohfVars, basisVars>>

\* The right-hand side becomes a copy of the left-hand side.
shell_copy ==
    /\ shB' = copy(shA)
    /\ shB' # shB
    /\ shEq' = "none"
    /\ UNCHANGED <<shA, primitive_type, rohfVars, basisVars>>

\* The right-hand side becomes a copy of the left-hand side on another atom.
shell_copy_to ==
    /\ \E nc \in Centers : \E c \in Centers : shB' = copy_to(shA, nc, c)
    /\ shB' # shB
    /\ shEq' = "none"
    /\ UNCHANGED <<shA, primitive_type, rohfVars, basisVars>>

\* shA == shB is evaluated.
shell_compare ==
    /\ shEq = "none"
    /\ shB # NoShell
    /\ shEq' = IF ShellEquals(shA, shB) THEN "true" ELSE "false"
    /\ UNCHANGED <<shA, shB, primitive_type, rohfVars, basisVars>>

(***************************************************************************)
(* ECPBasisSet (ecp.cc).                                                   *)
(***************************************************************************)
\* std::map: a function on the keys present; operator[] on an absent key
\* gives the default value.  Keys are <<basis, label>>, ordered by basis and
\* then by label, the order the nested maps are iterated in.
EmptyMap == [k \in {} |-> 0]
MapGet(m, k, default) == IF k \in DOMAIN m THEN m[k] ELSE default
MapPut(m, k, v) == [x \in (DOMAIN m) \cup {k} |-> IF x = k THEN v ELSE m[x]]
KeyBefore(a, b) == a[1] < b[1] \/ (a[1] = b[1] /\ a[2] < b[2])
FirstKey(S) == CHOOSE k \in S : \A o \in S \ {k} : KeyBefore(k, o)

\* An array of len entries that new[] leaves unwritten.
Unset == 0 - 1
NewArray(len) == [x \in 0..(len - 1) |-> Unset]

\* ShellInfo::nprimitive()
nprimitive(shell) == Len(shell.exp_)

\* Basis names and atom labels, as their rank in the maps' order.
Bases == {1, 2}
Labels == {1, 2, 3}

\* The key of atom n: <<atom->basisset(basistype), atom->label()>>.
AtomKey(m, n) == <<m.basis[n], m.label[n]>>

\* PushShell counting one per shell instead of one per primitive.
PushShell_countsShells(acc, shell) ==
    [acc EXCEPT
        !.uexps = @ \o [p \in 1..nprimitive(shell) |-> shell.exp_[p]],
        !.ucoefs = @ \o [p \in 1..nprimitive(shell) |-> shell.coef_[p]],
        !.uoriginal_coefs = @ \o [p \in 1..nprimitive(shell) |-> shell.original_coef_[p]],
        !.uerd_coefs = @ \o [p \in 1..nprimitive(shell) |-> 0],
        !.uns = @ \o [p \in 1..nprimitive(shell) |-> shell.n_[p]],
        !.usubls = @ \o [p \in 1..nprimitive(shell) |-> shell.sub_l_[p]],
        !.n_uprimitive_ = @ + 1]

\* The unique primitive pass, one shell: every primitive is pushed onto the
\* pools and counted.
PushShell(acc, shell) ==
    [acc EXCEPT
        !.uexps = @ \o [p \in 1..nprimitive(shell) |-> shell.exp_[p]],
        !.ucoefs = @ \o [p \in 1..nprimitive(shell) |-> shell.coef_[p]],
        !.uoriginal_coefs = @ \o [p \in 1..nprimitive(shell) |-> shell.original_coef_[p]],
        !.uerd_coefs = @ \o [p \in 1..nprimitive(shell) |-> 0],
        !.uns = @ \o [p \in 1..nprimitive(shell) |-> shell.n_[p]],
        !.usubls = @ \o [p \in 1..nprimitive(shell) |-> shell.sub_l_[p]],
        !.n_uprimitive_ = @ + nprimitive(shell)]

\* The unique primitive pass, the shells i.. of one key.
RECURSIVE PushShells(_, _, _)
PushShells(acc, shells, i) ==
    IF i > Len(shells) THEN acc
    ELSE PushShells(PushShell(acc, shells[i]), shells, i + 1)

\* The unique primitive pass over the keys left, in the maps' order: the
\* start of the key's range, its primitives, the end of its range.
RECURSIVE UniquePrimitivePass(_, _, _)
UniquePrimitivePass(acc, smap, keys) ==
    IF keys = {} THEN acc
    ELSE LET k == FirstKey(keys)
             a1 == [acc EXCEPT !.primitive_start = MapPut(@, k, acc.n_uprimitive_)]
             a2 == PushShells(a1, smap[k], 1)
             a3 == [a2 EXCEPT !.primitive_end = MapPut(@, k, a2.n_uprimitive_)]
         IN UniquePrimitivePass(a3, smap, keys \ {k})

\* The sizing pass, the shells i.. of one atom.
RECURSIVE CountShells(_, _, _)
CountShells(acc, shells, i) ==
    IF i > Len(shells) THEN acc
    ELSE CountShells(
             [acc EXCEPT !.nprimitive_ = @ + nprimitive(shells[i]),
                         !.n_shells_ = @ + 1,
                         !.nao_ = @ + shells[i].ncartesian_,
                         !.nbf_ = @ + shells[i].nfunction_],
             shells, i + 1)

\* The sizing pass over the atoms n.. of the molecule.
RECURSIVE SizingPass(_, _, _, _)
SizingPass(acc, smap, m, n) ==
    IF n > Len(m.label) THEN acc
    ELSE SizingPass(CountShells(acc, MapGet(smap, AtomKey(m, n), <<>>), 1),
                    smap, m, n + 1)

\* shell_map[basis][label] of every atom inserts an empty shell list for a
\* key that is absent.
WithAtomKeys(smap, m) ==
    [k \in (DOMAIN smap) \cup {AtomKey(m, n) : n \in 1..Len(m.label)} |->
        MapGet(smap, k, <<>>)]

\* AssembleShell pointing every shell at the start of the key's range.
AssembleShell_rangeStart(st, thisshell, n, ustart) ==
    LET shell_nprim == nprimitive(thisshell)
        am == thisshell.l_
        sc == st.shell_count
    IN [st EXCEPT
           !.shell_first_ao_[sc] = st.ao_count,
           !.shell_first_basis_function_[sc] = st.bf_count,
           !.max_nprimitive_ = IF shell_nprim > @ THEN shell_nprim ELSE @,
           !.max_am_ = IF @ > am THEN @ ELSE am,
           !.shell_center_[sc] = n,
           !.puream_ = IF thisshell.puream_ = "Pure" THEN TRUE ELSE @,
           !.shells_[sc] = [am |-> am, nprimitive |-> shell_nprim,
                            ptr |-> ustart,
                            nc |-> n, center |-> n, start |-> st.bf_count],
           !.function_to_shell_ =
               [x \in DOMAIN @ |->
                   IF x >= st.bf_count /\ x < st.bf_count + thisshell.nfunction_
                   THEN sc ELSE @[x]],
           !.function_center_ =
               [x \in DOMAIN @ |->
                   IF x >= st.bf_count /\ x < st.bf_count + thisshell.nfunction_
                   THEN n ELSE @[x]],
           !.bf_count = @ + thisshell.nfunction_,
           !.ao_to_shell_ =
               [x \in DOMAIN @ |->
                   IF x >= st.ao_count /\ x < st.ao_count + thisshell.ncartesian_
                   THEN sc ELSE @[x]],
           !.ao_count = @ + thisshell.ncartesian_,
           !.atom_nprim = @ + shell_nprim,
           !.shell_count = @ + 1]

\* AssembleShell writing the shell's index within its atom, not the running
\* shell count, into the function and AO tables.
AssembleShell_localIndex(st, thisshell, n, ustart) ==
    LET shell_nprim == nprimitive(thisshell)
        am == thisshell.l_
        sc == st.shell_count
        local == st.shell_count - st.center_to_shell_[n]
    IN [st EXCEPT
           !.shell_first_ao_[sc] = st.ao_count,
           !.shell_first_basis_function_[sc] = st.bf_count,
           !.max_nprimitive_ = IF shell_nprim > @ THEN shell_nprim ELSE @,
           !.max_am_ = IF @ > am THEN @ ELSE am,
           !.shell_center_[sc] = n,
           !.puream_ = IF thisshell.puream_ = "Pure" THEN TRUE ELSE @,
           !.shells_[sc] = [am |-> am, nprimitive |-> shell_nprim,
                            ptr |-> ustart + st.atom_nprim,
                            nc |-> n, center |-> n, start |-> st.bf_count],
           !.function_to_shell_ =
               [x \in DOMAIN @ |->
                   IF x >= st.bf_count /\ x < st.bf_count + thisshell.nfunction_
                   THEN local ELSE @[x]],
           !.function_center_ =
               [x \in DOMAIN @ |->
                   IF x >= st.bf_count /\ x < st.bf_count + thisshell.nfunction_
                   THEN n ELSE @[x]],
           !.bf_count = @ + thisshell.nfunction_,
           !.ao_to_shell_ =
               [x \in DOMAIN @ |->
                   IF x >= st.ao_count /\ x < st.ao_count + thisshell.ncartesian_
                   THEN local ELSE @[x]],
           !.ao_count = @ + thisshell.ncartesian_,
           !.atom_nprim = @ + shell_nprim,
           !.shell_count = @ + 1]

\* The assembly pass, one shell of atom n (0-based): the offsets, the
\* maxima, the shell record pointing into the pools at ustart + atom_nprim,
\* and the function and AO tables.
AssembleShell(st, thisshell, n, ustart) ==
    LET shell_nprim == nprimitive(thisshell)
        am == thisshell.l_
        sc == st.shell_count
    IN [st EXCEPT
           !.shell_first_ao_[sc] = st.ao_count,
           !.shell_first_basis_function_[sc] = st.bf_count,
           !.max_nprimitive_ = IF shell_nprim > @ THEN shell_nprim ELSE @,
           !.max_am_ = IF @ > am THEN @ ELSE am,
           !.shell_center_[sc] = n,
           !.puream_ = IF thisshell.puream_ = "Pure" THEN TRUE ELSE @,
           !.shells_[sc] = [am |-> am, nprimitive |-> shell_nprim,
                            ptr |-> ustart + st.atom_nprim,
                            nc |-> n, center |-> n, start |-> st.bf_count],
           !.function_to_shell_ =
               [x \in DOMAIN @ |->
                   IF x >= st.bf_count /\ x < st.bf_count + thisshell.nfunction_
                   THEN sc ELSE @[x]],
           !.function_center_ =
               [x \in DOMAIN @ |->
                   IF x >= st.bf_count /\ x < st.bf_count + thisshell.nfunction_
                   THEN n ELSE @[x]],
           !.bf_count = @ + thisshell.nfunction_,
           !.ao_to_shell_ =
               [x \in DOMAIN @ |->
                   IF x >= st.ao_count /\ x < st.ao_count + thisshell.ncartesian_
                   THEN sc ELSE @[x]],
           !.ao_count = @ + thisshell.ncartesian_,
           !.atom_nprim = @ + shell_nprim,
           !.shell_count = @ + 1]

\* The assembly pass, the shells i.. of atom n.
RECURSIVE AssembleShells(_, _, _, _, _)
AssembleShells(st, shells, i, n, ustart) ==
    IF i > Len(shells) THEN st
    ELSE AssembleShells(AssembleShell(st, shells[i], n, ustart),
                        shells, i + 1, n, ustart)

\* The assembly pass, atom n (0-based): its shell range, its shells, and
\* the primitives it consumed.
AssembleAtom(st, smap, m, n) ==
    LET shells == MapGet(smap, AtomKey(m, n + 1), <<>>)
        ustart == MapGet(st.primitive_start, AtomKey(m, n + 1), 0)
        s0 == [st EXCEPT !.center_to_nshell_[n] = Len(shells),
                         !.center_to_shell_[n] = st.shell_count,
                         !.atom_nprim = 0]
        s1 == AssembleShells(s0, shells, 1, n, ustart)
    IN [s1 EXCEPT !.xyz_[n] = n,
                  !.consumed = @ \o <<s1.atom_nprim>>]

\* The constructor's frame at entry.
NewFrame(ret) ==
    [name_ |-> 0, key_ |-> "", target_ |-> "",
     primitive_start |-> EmptyMap, primitive_end |-> EmptyMap,
     uexps |-> <<>>, ucoefs |-> <<>>, uoriginal_coefs |-> <<>>,
     uerd_coefs |-> <<>>, uns |-> <<>>, usubls |-> <<>>,
     n_uprimitive_ |-> 0,
     n_shells_ |-> 0, nprimitive_ |-> 0, nao_ |-> 0, nbf_ |-> 0,
     shell_first_ao_ |-> <<>>, shell_first_basis_function_ |-> <<>>,
     shells_ |-> <<>>, ao_to_shell_ |-> <<>>, function_to_shell_ |-> <<>>,
     function_center_ |-> <<>>, shell_center_ |-> <<>>,
     center_to_nshell_ |-> <<>>, center_to_shell_ |-> <<>>, xyz_ |-> <<>>,
     puream_ |-> FALSE, max_am_ |-> 0, max_nprimitive_ |-> 0,
     shell_count |-> 0, ao_count |-> 0, bf_count |-> 0,
     n |-> 0, atom_nprim |-> 0, consumed |-> <<>>,
     constructed |-> FALSE, ret |-> ret]

\* ---- input families ----
\* The nuclear charge of the element an atom label names.
InitialZ(label) == 30 + 5 * label

\* Molecules of MaxAtoms atoms; seed t sets which atoms share a label and a
\* basis.
MolOf(t) ==
    [Z |-> [n \in 1..MaxAtoms |-> InitialZ((((n \div 2) * t) % Cardinality(Labels)) + 1)],
     label |-> [n \in 1..MaxAtoms |-> (((n \div 2) * t) % Cardinality(Labels)) + 1],
     basis |-> [n \in 1..MaxAtoms |-> ((n * t) % Cardinality(Bases)) + 1],
     shell |-> [n \in 1..MaxAtoms |-> 0]]

\* Shell maps over several bases and labels, with absent keys and keys with
\* an empty shell list.
ShellMapOf(m) ==
    [k \in {x \in Bases \X Labels : (x[1] + x[2] + m) % 3 # 0} |->
        [i \in 1..((k[2] * k[2] + m) % 4) |->
            ShellOf((i + m) % (MaxAm + 1), ((i + k[2]) % MaxPrim) + 1,
                    k[1] + k[2] + i, 0, 0, 0)]]

ShellMapSeeds == 0..(MaxSeed + 3)

\* One shell entry of a structured description:
\* [angmom, [e1, c1, r1], ..., [ep, cp, rp]].
RawShell(am, np, s) ==
    [am |-> am,
     prims |-> [p \in 1..np |-> [e |-> 2 * s + p, c |-> s + p, r |-> (s + p) % 3]]]

\* One per-atom record: [label, hash, ncore, shell entries...].
EcpRecordOf(label, i, s) ==
    [atomlabel |-> label,
     hash |-> 10 * (s + 1) + label,
     ncore |-> 2 * (i + s),
     shells |-> [k \in 1..((i + s) % 3) |->
                    RawShell((k + s) % (MaxAm + 1), ((k + i) % MaxPrim) + 1, s + k)]]

\* Structured ECP descriptions of k records.
PyBsOf(k, s) ==
    [key |-> "BASIS",
     name |-> (s % Cardinality(Bases)) + 1,
     blend |-> "ECP",
     ecp_shell_map |->
        [i \in 1..k |-> EcpRecordOf(((i * s) % Cardinality(Labels)) + 1, i, s)]]

NoPyBs == [key |-> "", name |-> 0, blend |-> "", ecp_shell_map |-> <<>>]
NoMol == [Z |-> <<>>, label |-> <<>>, basis |-> <<>>, shell |-> <<>>]
NoEcp == [atom |-> 0, catom |-> 0, basis_atom_ncore |-> EmptyMap]

BasisIdle ==
    /\ epc = "idle" /\ mol = NoMol /\ pybs = NoPyBs /\ ecp = NoEcp
    /\ shell_map = EmptyMap /\ ctor = NewFrame("idle") /\ trace = <<>>

\* ---- construct_ecp_from_pydict ----
\* The order of the steps after the parse loop: update_geometry, then the
\* nuclear charges, then the constructor.
EcpOrder_chargesFirst(step) ==
    CASE step = "parse" -> "charges"
      [] step = "charges" -> "update_geometry"
      [] step = "update_geometry" -> "construct"
      [] OTHER -> "done"

EcpOrder(step) ==
    CASE step = "parse" -> "update_geometry"
      [] step = "update_geometry" -> "charges"
      [] step = "charges" -> "construct"
      [] OTHER -> "done"

Event(op, arg) == [op |-> op, arg |-> arg]

\* The shell list of one record: every entry becomes an ECPShellInfo whose
\* sub-l labels all equal its angular momentum.
ParseShells(rec) ==
    [k \in 1..Len(rec.shells) |->
        LET sh == rec.shells[k]
            nprim == Len(sh.prims)
        IN ECPShellInfo(sh.am,
                        [p \in 1..nprim |-> sh.prims[p].c],
                        [p \in 1..nprim |-> sh.prims[p].e],
                        [p \in 1..nprim |-> sh.prims[p].r],
                        [p \in 1..nprim |-> sh.am],
                        0, 0, 0)]

\* NewCharge subtracting nothing.
NewCharge_kept(Z, ncore) == Z

\* The charge written for an atom.
NewCharge(Z, ncore) == Z - ncore

\* Entry: set_basis_all_atoms and the check for an empty description.
ecp_begin ==
    /\ epc = "begin"
    /\ mol' = [mol EXCEPT !.basis = [n \in DOMAIN @ |-> pybs.name]]
    /\ trace' = Append(trace, Event("set_basis_all_atoms", pybs.name))
    /\ epc' = IF Len(pybs.ecp_shell_map) = 0 THEN "throw_empty" ELSE "parse"
    /\ UNCHANGED <<pybs, ecp, shell_map, ctor>>
    /\ UNCHANGED <<rohfVars, primitive_type, shellVars>>

\* One turn of the loop over the records of the description.
ecp_parse_atom ==
    /\ epc = "parse"
    /\ LET rec == pybs.ecp_shell_map[ecp.atom + 1]
           vec_shellinfo == ParseShells(rec)
       IN /\ mol' = [mol EXCEPT !.shell =
                        [n \in DOMAIN @ |->
                            IF mol.label[n] = rec.atomlabel THEN rec.hash ELSE @[n]]]
          /\ trace' = Append(trace, Event("set_shell_by_label", rec.atomlabel))
          /\ ecp' = [ecp EXCEPT
                        !.basis_atom_ncore =
                            MapPut(@, <<pybs.name, rec.atomlabel>>, rec.ncore),
                        !.atom = @ + 1]
          /\ shell_map' = MapPut(shell_map, <<pybs.name, rec.atomlabel>>, vec_shellinfo)
    /\ epc' = IF ecp.atom + 1 < Len(pybs.ecp_shell_map) THEN "parse"
              ELSE EcpOrder("parse")
    /\ UNCHANGED <<pybs, ctor>>
    /\ UNCHANGED <<rohfVars, primitive_type, shellVars>>

\* mol->update_geometry()
ecp_update_geometry ==
    /\ epc = "update_geometry"
    /\ trace' = Append(trace, Event("update_geometry", 0))
    /\ epc' = EcpOrder("update_geometry")
    /\ UNCHANGED <<mol, pybs, ecp, shell_map, ctor>>
    /\ UNCHANGED <<rohfVars, primitive_type, shellVars>>

\* One turn of the loop over the atoms that modifies the nuclear charges.
ecp_set_charge ==
    /\ epc = "charges"
    /\ LET atom == ecp.catom + 1
           ncore == MapGet(ecp.basis_atom_ncore, AtomKey(mol, atom), 0)
           Z == mol.Z[atom]
       IN /\ mol' = [mol EXCEPT !.Z[atom] = NewCharge(Z, ncore)]
          /\ trace' = Append(trace, Event("set_nuclear_charge", atom))
    /\ ecp' = [ecp EXCEPT !.catom = @ + 1]
    /\ epc' = IF ecp.catom + 1 < Len(mol.label) THEN "charges"
              ELSE EcpOrder("charges")
    /\ UNCHANGED <<pybs, shell_map, ctor>>
    /\ UNCHANGED <<rohfVars, primitive_type, shellVars>>

\* new ECPBasisSet(key, mol, basis_atom_shell): the constructor is entered.
ecp_construct ==
    /\ epc = "construct"
    /\ ctor' = NewFrame("finish")
    /\ epc' = "ctor_unique"
    /\ UNCHANGED <<mol, pybs, ecp, shell_map, trace>>
    /\ UNCHANGED <<rohfVars, primitive_type, shellVars>>

\* The names of the basis set are set and it is returned.
ecp_finish ==
    /\ epc = "finish"
    /\ ctor' = [ctor EXCEPT !.name_ = pybs.name, !.key_ = pybs.key,
                            !.target_ = pybs.blend]
    /\ epc' = "done"
    /\ UNCHANGED <<mol, pybs, ecp, shell_map, trace>>
    /\ UNCHANGED <<rohfVars, primitive_type, shellVars>>

\* ---- ECPBasisSet::ECPBasisSet ----
\* The unique primitives of the shell map are stored.
ctor_unique_pass ==
    /\ epc = "ctor_unique"
    /\ ctor' = UniquePrimitivePass(ctor, shell_map, DOMAIN shell_map)
    /\ epc' = "ctor_sizing"
    /\ UNCHANGED <<mol, pybs, ecp, shell_map, trace>>
    /\ UNCHANGED <<rohfVars, primitive_type, shellVars>>

\* Functions, shells and primitives are counted and the arrays allocated.
ctor_sizing_pass ==
    /\ epc = "ctor_sizing"
    /\ LET c == SizingPass(ctor, shell_map, mol, 1)
           natom == Len(mol.label)
       IN ctor' = [c EXCEPT
                      !.shell_first_ao_ = NewArray(c.n_shells_),
                      !.shell_first_basis_function_ = NewArray(c.n_shells_),
                      !.shells_ = NewArray(c.n_shells_),
                      !.ao_to_shell_ = NewArray(c.nao_),
                      !.function_to_shell_ = NewArray(c.nbf_),
                      !.function_center_ = NewArray(c.nbf_),
                      !.shell_center_ = NewArray(c.n_shells_),
                      !.center_to_nshell_ = NewArray(natom),
                      !.center_to_shell_ = NewArray(natom),
                      !.xyz_ = NewArray(natom)]
    /\ shell_map' = WithAtomKeys(shell_map, mol)
    /\ epc' = "ctor_assemble"
    /\ UNCHANGED <<mol, pybs, ecp, trace>>
    /\ UNCHANGED <<rohfVars, primitive_type, shellVars>>

\* One turn of the loop over the atoms that points the shells at the unique
\* data; a primitive count that differs from the key's range throws.
ctor_assemble_atom ==
    /\ epc = "ctor_assemble"
    /\ LET n == ctor.n
           st == AssembleAtom(ctor, shell_map, mol, n)
           ustart == MapGet(ctor.primitive_start, AtomKey(mol, n + 1), 0)
           uend == MapGet(ctor.primitive_end, AtomKey(mol, n + 1), 0)
       IN IF st.atom_nprim # uend - ustart
          THEN /\ ctor' = st
               /\ epc' = "throw_nprimitive"
          ELSE /\ ctor' = [st EXCEPT !.n = @ + 1,
                                     !.constructed = (n + 1 >= Len(mol.label))]
               /\ epc' = IF n + 1 < Len(mol.label) THEN "ctor_assemble" ELSE ctor.ret
    /\ UNCHANGED <<mol, pybs, ecp, shell_map, trace>>
    /\ UNCHANGED <<rohfVars, primitive_type, shellVars>>

\* The solver is not running.
RohfIdle ==
    /\ H_ = create_matrix /\ Shalf_ = create_matrix
    /\ nuclearrep_ = 0 /\ ndocc_ = 0 /\ nsocc_ = 0
    /\ energy_threshold_ = 0 /\ density_threshold_ = 0
    /\ max_diis_vectors_ = 0
    /\ common_init
    /\ DiisInit
    /\ doccpi_ = [h \in Irreps |-> 0]
    /\ soccpi_ = [h \in Irreps |-> 0]
    /\ E_ = 0 /\ Eold_ = 0
    /\ Drms_ = [sumsq |-> 0, terms |-> 1]
    /\ converged = FALSE
    /\ iteration = 0
    /\ pc = "idle"

EcpIdle ==
    /\ primitive_type = "Normalized"
    /\ ShellIdle
    /\ BasisIdle

(***************************************************************************)
(* Specifications.                                                         *)
(***************************************************************************)
Init == RohfInit /\ EcpIdle

Next ==
    \/ form_initial_C
    \/ save_density_and_energy
    \/ form_G
    \/ form_F
    \/ form_C
    \/ form_D
    \/ compute_E
    \/ test_convergency
    \/ save_fock
    \/ diis

Spec == Init /\ [][Next]_vars

\* ECPShellInfo: construction, copies and comparisons of descriptors.
InitShell == RohfIdle /\ ShellInit /\ BasisIdle

NextShell ==
    \/ shell_construct
    \/ shell_copy
    \/ shell_copy_to
    \/ shell_compare

SpecShell == InitShell /\ [][NextShell]_vars

\* ECPBasisSet::construct_ecp_from_pydict on a molecule and a structured
\* description, the constructor included.
InitECP ==
    /\ RohfIdle /\ ShellIdle
    /\ primitive_type \in PrimitiveTypes
    /\ \E t \in Seeds : mol = MolOf(t)
    /\ \E k \in 0..MaxRecords : \E s \in Seeds : pybs = PyBsOf(k, s)
    /\ ecp = NoEcp
    /\ shell_map = EmptyMap
    /\ ctor = NewFrame("idle")
    /\ trace = <<>>
    /\ epc = "begin"

NextECP ==
    \/ ecp_begin
    \/ ecp_parse_atom
    \/ ecp_update_geometry
    \/ ecp_set_charge
    \/ ecp_construct
    \/ ctor_unique_pass
    \/ ctor_sizing_pass
    \/ ctor_assemble_atom
    \/ ecp_finish

SpecECP == InitECP /\ [][NextECP]_vars

\* The constructor ECPBasisSet(basistype, mol, shell_map) on any molecule and
\* shell map.
InitBasis ==
    /\ RohfIdle /\ ShellIdle
    /\ primitive_type \in PrimitiveTypes
    /\ \E t \in Seeds : mol = MolOf(t)
    /\ \E m \in ShellMapSeeds : shell_map = ShellMapOf(m)
    /\ pybs = NoPyBs
    /\ ecp = NoEcp
    /\ ctor = NewFrame("done")
    /\ trace = <<>>
    /\ epc = "ctor_unique"

NextBasis ==
    \/ ctor_unique_pass
    \/ ctor_sizing_pass
    \/ ctor_assemble_atom

SpecBasis == InitBasis /\ [][NextBasis]_vars

(***************************************************************************)
(* Helpers of the properties.                                              *)
(***************************************************************************)
\* The sum of f[x] over the elements x of a finite set S.
RECURSIVE SetSum(_, _)
SetSum(f, S) ==
    IF S = {} THEN 0
    ELSE LET x == CHOOSE y \in S : TRUE IN f[x] + SetSum(f, S \ {x})

\* All element positions <<h, i, j>> of a blocked matrix.
Elements == UNION {{<<h, i, j>> : i \in Idx(h), j \in Idx(h)} : h \in Irreps}

\* The dot product of two blocked matrices, element by element.
Dot(A, B) == SetSum([e \in Elements |-> A[e[1]][e[2]][e[3]] * B[e[1]][e[2]][e[3]]], Elements)

(***************************************************************************)
(* C1.  After form_F, in every irrep the effective Fock matrix holds the   *)
(* beta MO Fock entry at every position of the closed-open block and of    *)
(* its transpose, the alpha MO Fock entry at every position of the         *)
(* open-virtual block and of its transpose, and Fc = 0.5 (moFa + moFb) at  *)
(* every other position.                                                   *)
(***************************************************************************)
FeffBlockStructure ==
    \A h \in Irreps : \A i \in Idx(h) : \A j \in Idx(h) :
        LET cl(k) == k < doccpi_[h]
            op(k) == k >= doccpi_[h] /\ k < doccpi_[h] + soccpi_[h]
            vi(k) == k >= doccpi_[h] + soccpi_[h]
        IN /\ ((cl(i) /\ op(j)) \/ (op(i) /\ cl(j))) => Feff_[h][i][j] = moFb_[h][i][j]
           /\ ((op(i) /\ vi(j)) \/ (vi(i) /\ op(j))) => Feff_[h][i][j] = moFa_[h][i][j]
           /\ ((cl(i) /\ cl(j)) \/ (op(i) /\ op(j)) \/ (vi(i) /\ vi(j))
                  \/ (cl(i) /\ vi(j)) \/ (vi(i) /\ cl(j)))
                 => 2 * Feff_[h][i][j] = moFa_[h][i][j] + moFb_[h][i][j]

C1_EffectiveFockBlocks == [][form_F => FeffBlockStructure']_vars

\* form_F has just run on an irrep with a closed, an open and a virtual
\* orbital, where the alpha and beta MO Fock entries of both special blocks
\* differ.
C1_Witness ==
    /\ pc = "form_C"
    /\ \E h \in Irreps :
          /\ doccpi_[h] > 0 /\ soccpi_[h] > 0
          /\ doccpi_[h] + soccpi_[h] < nmopi_[h]
          /\ moFa_[h][doccpi_[h]][0] # moFb_[h][doccpi_[h]][0]
          /\ moFa_[h][doccpi_[h]][nmopi_[h] - 1] # moFb_[h][doccpi_[h]][nmopi_[h] - 1]
          /\ Feff_[h][0][doccpi_[h]] = moFb_[h][0][doccpi_[h]]
          /\ Feff_[h][nmopi_[h] - 1][doccpi_[h]] = moFa_[h][nmopi_[h] - 1][doccpi_[h]]

(***************************************************************************)
(* C2.  After every form_D the total density Dt is the element-wise sum    *)
(* Da + Db of the alpha and beta densities just formed.                    *)
(***************************************************************************)
C2_TotalDensityIsSum ==
    [][form_D =>
         \A e \in Elements :
             Dt_'[e[1]][e[2]][e[3]] = Da_'[e[1]][e[2]][e[3]] + Db_'[e[1]][e[2]][e[3]]]_vars

(***************************************************************************)
(* C3.  test_convergency returns true exactly when |E - Eold| is strictly  *)
(* below the energy threshold and the RMS of (total density - saved total  *)
(* density) is strictly below the density threshold.                       *)
(***************************************************************************)
\* sqrt(sum of (Dt - Dt_old)^2 / number of elements) < density threshold.
DensityBelow ==
    LET sq == [e \in Elements |->
                  (Dt_[e[1]][e[2]][e[3]] - Dt_old_[e[1]][e[2]][e[3]])
                  * (Dt_[e[1]][e[2]][e[3]] - Dt_old_[e[1]][e[2]][e[3]])]
    IN SetSum(sq, Elements)
         < density_threshold_ * density_threshold_ * Cardinality(Elements)

EnergyBelow ==
    /\ E_ - Eold_ < energy_threshold_
    /\ Eold_ - E_ < energy_threshold_

C3_ConvergedIffBothBelow ==
    [][test_convergency => (converged' <=> (EnergyBelow /\ DensityBelow))]_vars

\* The energy change is exactly at its threshold and the density change is
\* below its own: not converged.
C3_Witness ==
    /\ pc = "done" /\ iteration > 0
    /\ fabs(E_ - Eold_) = energy_threshold_
    /\ DensityBelow
    /\ ~converged

\* Further cases of C3, each reachable.
C3_CaseBothBelow ==
    pc = "done" /\ iteration > 0 /\ EnergyBelow /\ DensityBelow /\ converged
C3_CaseDensityAtThreshold ==
    /\ pc = "done" /\ iteration > 0 /\ EnergyBelow /\ ~converged
    /\ Drms_.sumsq = density_threshold_ * density_threshold_ * Drms_.terms
C3_CaseDensityAbove ==
    /\ pc = "done" /\ iteration > 0 /\ EnergyBelow /\ ~converged
    /\ Drms_.sumsq > density_threshold_ * density_threshold_ * Drms_.terms
C3_CaseEnergyAbove ==
    /\ pc = "done" /\ iteration > 0 /\ DensityBelow /\ ~converged
    /\ fabs(E_ - Eold_) > energy_threshold_

(***************************************************************************)
(* C10.  compute_E returns E_nuclear_repulsion + 0.5 (Da.H + Db.H + Da.Fa  *)
(* + Db.Fb), '.' the sum of the element-wise products over all irreps,     *)
(* and changes no matrix of the SCF state: twice (E - E_nuc) is the sum of *)
(* the four dot products.                                                  *)
(***************************************************************************)
C10_EnergyFormula ==
    [][compute_E =>
         /\ 2 * (E_' - nuclearrep_)
              = Dot(Da_, H_) + Dot(Db_, H_) + Dot(Da_, Fa_) + Dot(Db_, Fb_)
         /\ UNCHANGED <<rohfInputs, rohfFock, rohfJK, rohfOrbitals,
                        rohfDensity, rohfHistory>>]_vars

\* compute_E has just run in an iteration, with different alpha and beta
\* densities and Fock matrices that contribute to the energy.
C10_Witness ==
    /\ pc = "test_convergency"
    /\ Da_ # Db_ /\ Fa_ # Fb_
    /\ Dot(Db_, H_) # 0 /\ Dot(Da_, Fa_) # 0 /\ Dot(Db_, Fb_) # 0
    /\ 2 * (E_ - nuclearrep_)
         = Dot(Da_, H_) + Dot(Db_, H_) + Dot(Da_, Fa_) + Dot(Db_, Fb_)

(***************************************************************************)
(* C8.  Two shell descriptors compare equal if and only if all their       *)
(* fields are equal field by field (the coefficients against the other's   *)
(* coefficients); in particular every descriptor equals itself and its     *)
(* copy().                                                                 *)
(***************************************************************************)
C8_EqualIffFieldsEqual ==
    shEq # "none" => ((shEq = "true") <=> (shA = shB))

(***************************************************************************)
(* Helpers of the ECP properties.                                          *)
(***************************************************************************)
Atoms == 1..Len(mol.label)

\* The core-electron count the description records for atom n's label: the
\* last record of that label, 0 when there is none.
RecordedNcore(n) ==
    LET recs == {i \in DOMAIN pybs.ecp_shell_map :
                    pybs.ecp_shell_map[i].atomlabel = mol.label[n]}
    IN IF recs = {} THEN 0
       ELSE pybs.ecp_shell_map[CHOOSE i \in recs : \A o \in recs : o <= i].ncore

\* The nuclear-charge writes of atom n so far.
ChargeWrites(n) ==
    {i \in DOMAIN trace : trace[i].op = "set_nuclear_charge" /\ trace[i].arg = n}

\* The shell list of atom n in the shell map.
ShellsOfAtom(n) == MapGet(shell_map, AtomKey(mol, n), <<>>)

\* The primitive range recorded for atom n's key.
RangeStart(n) == MapGet(ctor.primitive_start, AtomKey(mol, n), 0)
RangeEnd(n) == MapGet(ctor.primitive_end, AtomKey(mol, n), 0)

\* The primitives of the first i shells of a shell list.
PrimsBefore(shells, i) ==
    SetSum([k \in 1..i |-> Len(shells[k].exp_)], 1..i)

(***************************************************************************)
(* C4.  After construct_ecp_from_pydict completes on a non-empty           *)
(* description, every atom's nuclear charge is its old charge minus the    *)
(* core-electron count recorded for its (basis, label) pair, 0 when its    *)
(* label has no record, and was written exactly once.                      *)
(***************************************************************************)
C4_ChargeReducedOnce ==
    epc = "done" =>
        /\ Len(pybs.ecp_shell_map) > 0
        /\ \A n \in Atoms :
              /\ mol.Z[n] = InitialZ(mol.label[n]) - RecordedNcore(n)
              /\ Cardinality(ChargeWrites(n)) = 1

\* A completed construction with an atom whose label has a record with core
\* electrons and an atom whose label has none.
C4_Witness ==
    /\ epc = "done"
    /\ \E n \in Atoms : RecordedNcore(n) > 0 /\ mol.Z[n] < InitialZ(mol.label[n])
    /\ \E n \in Atoms :
          /\ \A i \in DOMAIN pybs.ecp_shell_map :
                pybs.ecp_shell_map[i].atomlabel # mol.label[n]
          /\ mol.Z[n] = InitialZ(mol.label[n])

\* A completed construction whose description has two records of one label.
C4_CaseTwoRecords ==
    /\ epc = "done"
    /\ \E i, j \in DOMAIN pybs.ecp_shell_map :
          /\ i < j
          /\ pybs.ecp_shell_map[i].atomlabel = pybs.ecp_shell_map[j].atomlabel
          /\ \E n \in Atoms : mol.label[n] = pybs.ecp_shell_map[i].atomlabel

(***************************************************************************)
(* C5.  As claimed: the nuclear charges are written before the geometry    *)
(* recompute, no update_geometry precedes a nuclear-charge write of the    *)
(* same construction.                                                      *)
(***************************************************************************)
C5_ChargesBeforeGeometry ==
    \A i \in DOMAIN trace : \A j \in DOMAIN trace :
        (trace[i].op = "update_geometry" /\ trace[j].op = "set_nuclear_charge")
            => j < i

(***************************************************************************)
(* C5, amended.  update_geometry is triggered once, after every            *)
(* set_shell_by_label of the description and before the first              *)
(* nuclear-charge write: every nuclear-charge write of the construction    *)
(* follows the geometry recompute.                                         *)
(***************************************************************************)
C5_GeometryBeforeCharges ==
    /\ Cardinality({i \in DOMAIN trace : trace[i].op = "update_geometry"}) <= 1
    /\ \A j \in DOMAIN trace :
          trace[j].op = "set_nuclear_charge" =>
              \E i \in DOMAIN trace : i < j /\ trace[i].op = "update_geometry"
    /\ \A i \in DOMAIN trace : \A j \in DOMAIN trace :
          (trace[i].op = "set_shell_by_label" /\ trace[j].op = "update_geometry")
              => i < j
    /\ epc \in {"charges", "construct", "ctor_unique", "ctor_sizing",
                "ctor_assemble", "finish", "done"}
          => \E i \in DOMAIN trace : trace[i].op = "update_geometry"

\* A completed construction: the geometry was recomputed and every atom's
\* charge was written after it.
C5_Witness ==
    /\ epc = "done"
    /\ \E i \in DOMAIN trace :
          /\ trace[i].op = "update_geometry"
          /\ \A n \in Atoms : \E j \in ChargeWrites(n) : i < j
    /\ \E n \in Atoms : RecordedNcore(n) > 0

(***************************************************************************)
(* C6.  For every basis set the constructor assembles: the per-atom shell  *)
(* counts add up to n_shells; center_to_shell[n] is the number of shells   *)
(* of the atoms before n; function_to_shell and ao_to_shell are            *)
(* non-decreasing, every one of their nbf / nao entries written with a     *)
(* shell index in [0, n_shells).                                           *)
(***************************************************************************)
NonDecreasing(f, len) ==
    /\ DOMAIN f = 0..(len - 1)
    /\ \A x \in DOMAIN f : f[x] >= 0 /\ f[x] < ctor.n_shells_
    /\ \A x \in DOMAIN f : \A y \in DOMAIN f : x <= y => f[x] <= f[y]

C6_IndexTables ==
    ctor.constructed =>
        /\ SetSum([n \in Atoms |-> ctor.center_to_nshell_[n - 1]], Atoms)
             = ctor.n_shells_
        /\ \A n \in Atoms :
              /\ ctor.center_to_nshell_[n - 1] = Len(ShellsOfAtom(n))
              /\ ctor.center_to_shell_[n - 1]
                   = SetSum([k \in Atoms |-> Len(ShellsOfAtom(k))], 1..(n - 1))
        /\ NonDecreasing(ctor.function_to_shell_, ctor.nbf_)
        /\ NonDecreasing(ctor.ao_to_shell_, ctor.nao_)
        /\ ctor.nbf_ = SetSum([n \in Atoms |->
                          SetSum([i \in 1..Len(ShellsOfAtom(n)) |->
                                     ShellsOfAtom(n)[i].nfunction_],
                                 1..Len(ShellsOfAtom(n)))], Atoms)
        /\ ctor.nao_ = SetSum([n \in Atoms |->
                          SetSum([i \in 1..Len(ShellsOfAtom(n)) |->
                                     ShellsOfAtom(n)[i].ncartesian_],
                                 1..Len(ShellsOfAtom(n)))], Atoms)

\* An assembled basis set in which two atoms with shells come one after the
\* other, the later one not the first, and some shell has several functions.
C6_Witness ==
    /\ ctor.constructed
    /\ ctor.nbf_ > ctor.n_shells_
    /\ \E n \in Atoms :
          /\ n > 1
          /\ Len(ShellsOfAtom(n)) > 1
          /\ ctor.center_to_shell_[n - 1] > 0

(***************************************************************************)
(* C7.  For every atom the assembly pass has handled, the primitives       *)
(* consumed while building its shells number end - start of the range      *)
(* recorded for its (basis, label) key, also when its label is absent      *)
(* from the shell map; construction aborts exactly when the two differ,    *)
(* and then no basis set is produced.                                      *)
(***************************************************************************)
C7_ConsumedEqualsRange ==
    /\ \A n \in 1..Len(ctor.consumed) :
          ctor.consumed[n] = RangeEnd(n) - RangeStart(n)
    /\ (epc = "throw_nprimitive") <=>
          (\E n \in 1..Len(ctor.consumed) :
               ctor.consumed[n] # RangeEnd(n) - RangeStart(n))
    /\ epc = "throw_nprimitive" => ~ctor.constructed

\* An assembled basis set with an atom whose key was absent from the shell
\* map and two atoms that share a key with several primitives.
C7_Witness ==
    /\ ctor.constructed
    /\ \E n \in Atoms :
          /\ AtomKey(mol, n) \notin DOMAIN ctor.primitive_start
          /\ ctor.consumed[n] = 0
    /\ \E n \in Atoms : \E k \in Atoms :
          /\ n # k /\ AtomKey(mol, n) = AtomKey(mol, k)
          /\ ctor.consumed[n] > 1
          /\ RangeStart(n) > 0

(***************************************************************************)
(* C9.  In an assembled basis set, the record of shell i of atom n points  *)
(* at the pool range that starts at start(basis, label) plus the           *)
(* primitives of the atom's shells before i and has nprimitive(i)          *)
(* entries; the exponents, coefficients, radial powers and sub-l labels    *)
(* read through it are those of the shell map, in order, also for atoms    *)
(* that share a key.                                                       *)
(***************************************************************************)
C9_ShellsReferencePool ==
    ctor.constructed =>
        \A n \in Atoms : \A i \in 1..Len(ShellsOfAtom(n)) :
            LET sh == ShellsOfAtom(n)[i]
                rec == ctor.shells_[ctor.center_to_shell_[n - 1] + i - 1]
                off == RangeStart(n) + PrimsBefore(ShellsOfAtom(n), i - 1)
            IN /\ rec.ptr = off
               /\ rec.nprimitive = Len(sh.exp_)
               /\ rec.am = sh.l_
               /\ \A p \in 1..rec.nprimitive :
                     /\ ctor.uexps[rec.ptr + p] = sh.exp_[p]
                     /\ ctor.uoriginal_coefs[rec.ptr + p] = sh.original_coef_[p]
                     /\ ctor.uns[rec.ptr + p] = sh.n_[p]
                     /\ ctor.usubls[rec.ptr + p] = sh.sub_l_[p]

\* An assembled basis set in which two atoms share a key of several shells
\* that does not start the pool.
C9_Witness ==
    /\ ctor.constructed
    /\ \E n \in Atoms : \E k \in Atoms :
          /\ n < k /\ AtomKey(mol, n) = AtomKey(mol, k)
          /\ Len(ShellsOfAtom(n)) > 1
          /\ RangeStart(n) > 0
          /\ ctor.shells_[ctor.center_to_shell_[k - 1] + 1].ptr > RangeStart(k)
          /\ ctor.shells_[ctor.center_to_shell_[k - 1]].ptr
               = ctor.shells_[ctor.center_to_shell_[n - 1]].ptr

(***************************************************************************)
(* C11.  After form_D, in every irrep h and at every (i, j): Db[i][j] is   *)
(* the sum of C[i][m] C[j][m] over the doubly occupied m in [0, docc_h)    *)
(* only, Da[i][j] is Db[i][j] plus the same sum over the singly occupied m *)
(* in [docc_h, docc_h + socc_h); Da = Db in every irrep without singly     *)
(* occupied orbitals, and Da and Db are symmetric.                         *)
(***************************************************************************)
OrbitalProducts(h, i, j, lo, hi) ==
    LET ms == {m \in Idx(h) : m >= lo /\ m < hi}
    IN SetSum([m \in ms |-> Ca_[h][i][m] * Ca_[h][j][m]], ms)

C11_Densities ==
    [][form_D =>
         \A h \in Irreps :
             /\ \A i \in Idx(h) : \A j \in Idx(h) :
                   /\ Db_'[h][i][j] = OrbitalProducts(h, i, j, 0, doccpi_[h])
                   /\ Da_'[h][i][j]
                        = Db_'[h][i][j]
                          + OrbitalProducts(h, i, j, doccpi_[h],
                                            doccpi_[h] + soccpi_[h])
                   /\ Da_'[h][i][j] = Da_'[h][j][i]
                   /\ Db_'[h][i][j] = Db_'[h][j][i]
             /\ soccpi_[h] = 0 => Da_'[h] = Db_'[h]]_vars

\* form_D has just run with one irrep that holds a doubly and a singly
\* occupied orbital, where Da and Db differ and Db is not zero, and another
\* irrep that holds doubly occupied orbitals only, where Da = Db is not zero.
C11_Witness ==
    /\ pc = "compute_E"
    /\ \E h \in Irreps :
          /\ doccpi_[h] > 0 /\ soccpi_[h] > 0
          /\ Da_[h] # Db_[h]
          /\ \E i \in Idx(h) : \E j \in Idx(h) : i # j /\ Db_[h][i][j] # 0
    /\ \E h \in Irreps :
          /\ doccpi_[h] > 0 /\ soccpi_[h] = 0
          /\ Da_[h] = Db_[h]
          /\ \E i \in Idx(h) : Db_[h][i][i] # 0

(***************************************************************************)
(* C13.  After any sequence of common_init, form_initial_C and form_C, the *)
(* alpha and beta MO coefficient matrices are identical and so are the     *)
(* alpha and beta orbital-energy vectors: no operation updates one         *)
(* channel's coefficients or energies without the other's.                 *)
(***************************************************************************)
C13_SharedOrbitals ==
    /\ Cb_ = Ca_
    /\ epsilon_b_ = epsilon_a_

\* form_C has just replaced the initial guess by other coefficients and
\* other energies, and both channels read the new ones.
C13_Witness ==
    /\ pc = "form_D" /\ iteration > 0
    /\ Ca_ # create_matrix /\ Ca_ # Shalf_
    /\ epsilon_a_ # create_vector
    /\ Cb_ = Ca_
    /\ epsilon_b_ = epsilon_a_

(***************************************************************************)
(* C12.  On every iteration that has not converged, when diis runs the     *)
(* DIIS step has recorded the current effective Fock matrix with an error  *)
(* vector as the newest entry of the manager's history, before the         *)
(* extrapolation overwrites Feff; the history never holds more entries     *)
(* than max_diis_vectors_; and the calculation constructs at most one      *)
(* manager, on the first save_fock, which every later call reuses.         *)
(***************************************************************************)
FeffRecorded ==
    /\ diis_manager_.entries # <<>>
    /\ LET newest == diis_manager_.entries[Len(diis_manager_.entries)]
       IN /\ newest.vector = Feff_
          /\ "error" \in DOMAIN newest

C12_DiisRecordsFeff ==
    [][/\ diis => FeffRecorded
       /\ Len(diis_manager_'.entries) <= max_diis_vectors_
       /\ managers_created' <= 1
       /\ save_fock =>
             IF initialized_diis_manager_
             THEN diis_manager_' = diis_manager_
             ELSE managers_created' = 1]_vars

\* The parts of C12 that do not depend on the recording: the bound of the
\* history and the single manager.
C12_CaseBoundedSingleManager ==
    [][/\ Len(diis_manager_'.entries) <= max_diis_vectors_
       /\ managers_created' <= 1
       /\ save_fock =>
             IF initialized_diis_manager_
             THEN diis_manager_' = diis_manager_
             ELSE managers_created' = 1]_vars

\* diis has run after a second save_fock of one calculation.
C12_CaseSecondDiis ==
    /\ iteration > 1 /\ pc \in {"done", "save_density_and_energy"}
    /\ ~converged
    /\ managers_created = 1

====
